---------------------------- MODULE Spec2Model ----------------------------
(***************************************************************************)
(* Model of src/examples/python_signature_generator.py:                    *)
(*                                                                         *)
(*   generate_upload_signature(payload, secret_key)                        *)
(*                                                                         *)
(* Texts and byte strings are sequences of integers (code points, bytes).  *)
(* 32-bit words are pairs <<hi, lo>> of 16-bit halves.                     *)
(***************************************************************************)
EXTENDS Integers, Sequences, FiniteSets, TLC

(***************************************************************************)
(* 32-bit word arithmetic, as hashlib.sha256 uses it.                      *)
(***************************************************************************)
RECURSIVE BitXor(_, _, _)
BitXor(a, b, n) ==
  IF n = 0 THEN 0
  ELSE ((a + b) % 2) + 2 * BitXor(a \div 2, b \div 2, n - 1)

RECURSIVE BitAnd(_, _, _)
BitAnd(a, b, n) ==
  IF n = 0 THEN 0
  ELSE ((a % 2) * (b % 2)) + 2 * BitAnd(a \div 2, b \div 2, n - 1)

XorNibble == [a \in 0..15 |-> [b \in 0..15 |-> BitXor(a, b, 4)]]

AndNibble == [a \in 0..15 |-> [b \in 0..15 |-> BitAnd(a, b, 4)]]

Xor8(a, b) == XorNibble[a \div 16][b \div 16] * 16 + XorNibble[a % 16][b % 16]

And8(a, b) == AndNibble[a \div 16][b \div 16] * 16 + AndNibble[a % 16][b % 16]

Xor16(a, b) == Xor8(a \div 256, b \div 256) * 256 + Xor8(a % 256, b % 256)

And16(a, b) == And8(a \div 256, b \div 256) * 256 + And8(a % 256, b % 256)

WXor(x, y) == <<Xor16(x[1], y[1]), Xor16(x[2], y[2])>>

WAnd(x, y) == <<And16(x[1], y[1]), And16(x[2], y[2])>>

WNot(x) == <<65535 - x[1], 65535 - x[2]>>

WAdd(x, y) ==
  LET lo == x[2] + y[2]
      hi == x[1] + y[1] + (lo \div 65536)
  IN  <<hi % 65536, lo % 65536>>

\* x rotated right by n bits, 0 < n < 32.
RotR(x, n) ==
  LET h == IF n >= 16 THEN x[2] ELSE x[1]
      l == IF n >= 16 THEN x[1] ELSE x[2]
      m == n % 16
      p == 2 ^ m
      q == 2 ^ (16 - m)
  IN  IF m = 0 THEN <<h, l>>
      ELSE <<(h \div p) + (l % p) * q, (l \div p) + (h % p) * q>>

\* x shifted right by n bits, 0 < n < 16.
ShR(x, n) ==
  LET p == 2 ^ n
      q == 2 ^ (16 - n)
  IN  <<x[1] \div p, (x[2] \div p) + (x[1] % p) * q>>

(***************************************************************************)
(* SHA-256 (FIPS 180-4), the digestmod handed to hmac.new.                 *)
(***************************************************************************)
SHA256_K ==
  <<
    <<17034, 12184>>, <<28983, 17553>>, <<46528, 64463>>, <<59829, 56229>>,
    <<14678, 49755>>, <<23025, 4593>>, <<37439, 33444>>, <<43804, 24277>>,
    <<55303, 43672>>, <<4739, 23297>>, <<9265, 34238>>, <<21772, 32195>>,
    <<29374, 23924>>, <<32990, 45566>>, <<39900, 1703>>, <<49563, 61812>>,
    <<58523, 27073>>, <<61374, 18310>>, <<4033, 40390>>, <<9228, 41420>>,
    <<11753, 11375>>, <<19060, 33962>>, <<23728, 43484>>, <<30457, 35034>>,
    <<38974, 20818>>, <<43057, 50797>>, <<45059, 10184>>, <<48985, 32711>>,
    <<50912, 3059>>, <<54695, 37191>>, <<1738, 25425>>, <<5161, 10599>>,
    <<10167, 2693>>, <<11803, 8504>>, <<19756, 28156>>, <<21304, 3347>>,
    <<25866, 29524>>, <<30314, 2747>>, <<33218, 51502>>, <<37490, 11397>>,
    <<41663, 59553>>, <<43034, 26187>>, <<49739, 35696>>, <<51052, 20899>>,
    <<53650, 59417>>, <<54937, 1572>>, <<62478, 13701>>, <<4202, 41072>>,
    <<6564, 49430>>, <<7735, 27656>>, <<10056, 30540>>, <<13488, 48309>>,
    <<14620, 3251>>, <<20184, 43594>>, <<23452, 51791>>, <<26670, 28659>>,
    <<29839, 33518>>, <<30885, 25455>>, <<33992, 30740>>, <<36039, 520>>,
    <<37054, 65530>>, <<42064, 27883>>, <<48889, 41975>>, <<50801, 30962>>
  >>

SHA256_H0 ==
  <<
    <<27145, 58983>>, <<47975, 44677>>, <<15470, 62322>>, <<42319, 62778>>,
    <<20750, 21119>>, <<39685, 26764>>, <<8067, 55723>>, <<23520, 52505>>
  >>

BigSigma0(x) == WXor(WXor(RotR(x, 2), RotR(x, 13)), RotR(x, 22))

BigSigma1(x) == WXor(WXor(RotR(x, 6), RotR(x, 11)), RotR(x, 25))

SmallSigma0(x) == WXor(WXor(RotR(x, 7), RotR(x, 18)), ShR(x, 3))

SmallSigma1(x) == WXor(WXor(RotR(x, 17), RotR(x, 19)), ShR(x, 10))

Ch(x, y, z) == WXor(WAnd(x, y), WAnd(WNot(x), z))

Maj(x, y, z) == WXor(WXor(WAnd(x, y), WAnd(x, z)), WAnd(y, z))

\* The 16 big-endian words of a 64-byte block.
BlockWords(block) ==
  [i \in 1..16 |->
     <<block[4 * i - 3] * 256 + block[4 * i - 2],
       block[4 * i - 1] * 256 + block[4 * i]>>]

\* The message schedule extended by the words lo..hi (17 <= lo <= hi <= 64).
RECURSIVE Schedule(_, _, _)
Schedule(w, lo, hi) ==
  IF lo = hi
  THEN Append(w, WAdd(WAdd(SmallSigma1(w[lo - 2]), w[lo - 7]),
                      WAdd(SmallSigma0(w[lo - 15]), w[lo - 16])))
  ELSE LET mid == (lo + hi) \div 2
           first == Schedule(w, lo, mid)
       IN  IF Len(first) = mid THEN Schedule(first, mid + 1, hi) ELSE first

\* The working variables a..h after a round with the temporaries t1, t2.
Rotate(s, t1, t2) ==
  <<WAdd(t1, t2), s[1], s[2], s[3], WAdd(s[4], t1), s[5], s[6], s[7]>>

\* One round of the compression function on the working variables a..h.
Round(s, w, t) ==
  Rotate(s,
         WAdd(WAdd(WAdd(s[8], BigSigma1(s[5])), Ch(s[5], s[6], s[7])),
              WAdd(SHA256_K[t], w[t])),
         WAdd(BigSigma0(s[1]), Maj(s[1], s[2], s[3])))

\* Rounds lo..hi applied in order.
RECURSIVE Rounds(_, _, _, _)
Rounds(s, w, lo, hi) ==
  IF lo = hi THEN Round(s, w, lo)
  ELSE LET mid == (lo + hi) \div 2
           first == Rounds(s, w, lo, mid)
       IN  IF Len(first) = 8 THEN Rounds(first, w, mid + 1, hi) ELSE first

\* The chaining value h with the working variables s added to it.
AddState(h, s) == [i \in 1..8 |-> WAdd(h[i], s[i])]

\* The compression function: the chaining value after one 64-byte block.
Compress(h, block) ==
  AddState(h, Rounds(h, Schedule(BlockWords(block), 17, 64), 1, 64))

Zeros(n) == [i \in 1..n |-> 0]

\* The 8-byte big-endian bit length of a message of n bytes (n < 2^27).
LengthBytes(n) ==
  LET bits == n * 8
  IN  <<0, 0, 0, 0,
        bits \div 16777216, (bits \div 65536) % 256,
        (bits \div 256) % 256, bits % 256>>

\* The message padded to a whole number of 64-byte blocks.
Sha256Pad(msg) ==
  LET n == Len(msg)
      k == (119 - (n % 64)) % 64
  IN  msg \o <<128>> \o Zeros(k) \o LengthBytes(n)

\* The chaining value after the blocks i, i+1, ... of the padded message.
RECURSIVE HashBlocks(_, _, _)
HashBlocks(h, padded, i) ==
  IF 64 * i >= Len(padded) THEN h
  ELSE HashBlocks(Compress(h, SubSeq(padded, 64 * i + 1, 64 * i + 64)),
                  padded, i + 1)

\* The 32 bytes of the eight words of a chaining value, big-endian.
DigestBytes(h) ==
  [k \in 1..32 |->
     LET half == h[((k - 1) \div 4) + 1][(((k - 1) % 4) \div 2) + 1]
     IN  IF k % 2 = 1 THEN half \div 256 ELSE half % 256]

\* hashlib.sha256(msg).digest(): 32 bytes.
Sha256(msg) == DigestBytes(HashBlocks(SHA256_H0, Sha256Pad(msg), 0))

(***************************************************************************)
(* HMAC, as hmac.new(key, msg, hashlib.sha256).digest() computes it.       *)
(***************************************************************************)
\* hashlib.sha256().block_size
HMAC_BLOCK_SIZE == 64

\* key.ljust(blocksize, b'\0')
PadKey(k) == k \o Zeros(HMAC_BLOCK_SIZE - Len(k))

\* The key as HMAC uses it: hashed when longer than a block, then
\* right-padded with NUL bytes to the block size.
HmacBlockKey(key) ==
  PadKey(IF Len(key) > HMAC_BLOCK_SIZE THEN Sha256(key) ELSE key)

\* key.translate(trans_36), key.translate(trans_5C): every byte xor c.
XorBytes(bk, c) == [i \in 1..Len(bk) |-> Xor8(bk[i], c)]

\* hashlib.sha256(msg).digest(): the message hashed without the key.
UnkeyedDigest(bk, msg) == Sha256(msg)

\* hmac.new(key, digestmod=hashlib.sha256).digest(): no message given.
HmacOfNoMessage(bk, msg) ==
  Sha256(XorBytes(bk, 92) \o Sha256(XorBytes(bk, 54)))

\* The digest of the outer hash over the digest of the inner hash.
HmacOfBlockKey(bk, msg) ==
  Sha256(XorBytes(bk, 92) \o Sha256(XorBytes(bk, 54) \o msg))

HmacSha256(key, msg) == HmacOfBlockKey(HmacBlockKey(key), msg)

(***************************************************************************)
(* Sequence helpers.                                                       *)
(***************************************************************************)
RECURSIVE FlattenRange(_, _, _)
FlattenRange(ss, lo, hi) ==
  IF lo > hi THEN <<>>
  ELSE IF lo = hi THEN ss[lo]
  ELSE LET mid == (lo + hi) \div 2
       IN  FlattenRange(ss, lo, mid) \o FlattenRange(ss, mid + 1, hi)

\* The concatenation of a sequence of sequences.
Flatten(ss) == FlattenRange(ss, 1, Len(ss))

\* s[:-1]: the last character removed, whatever it is.
DropLast(s, c) == SubSeq(s, 1, Len(s) - 1)

\* str.rstrip(c): every trailing occurrence of the character c removed.
RStrip(s, c) ==
  LET keep == {i \in 1..Len(s) : s[i] # c}
      end == IF keep = {} THEN 0 ELSE CHOOSE i \in keep : \A j \in keep : j <= i
  IN  SubSeq(s, 1, end)

(***************************************************************************)
(* str.encode() and bytes.decode(): UTF-8.                                 *)
(***************************************************************************)
IsSurrogate(c) == c >= 55296 /\ c <= 57343

Utf8Char(c) ==
  IF c < 128 THEN <<c>>
  ELSE IF c < 2048 THEN <<192 + (c \div 64), 128 + (c % 64)>>
  ELSE IF c < 65536
    THEN <<224 + (c \div 4096), 128 + ((c \div 64) % 64), 128 + (c % 64)>>
  ELSE <<240 + (c \div 262144), 128 + ((c \div 4096) % 64),
         128 + ((c \div 64) % 64), 128 + (c % 64)>>

\* str.encode(): the UTF-8 bytes, or UnicodeEncodeError on a lone surrogate.
StrEncode(s) ==
  IF \E i \in 1..Len(s) : IsSurrogate(s[i])
  THEN [ok |-> FALSE, exc |-> "UnicodeEncodeError"]
  ELSE [ok |-> TRUE, bytes |-> Flatten([i \in 1..Len(s) |-> Utf8Char(s[i])])]

\* bytes.decode() of ASCII bytes (base64 text is ASCII): one character per
\* byte; any other byte is reported as code point -1.
BytesDecode(b) == [i \in 1..Len(b) |-> IF b[i] < 128 THEN b[i] ELSE -1]

(***************************************************************************)
(* base64.urlsafe_b64encode                                                *)
(***************************************************************************)
\* The standard base64 alphabet: A-Z a-z 0-9 + /
B64Alphabet(i) ==
  IF i < 26 THEN 65 + i
  ELSE IF i < 52 THEN 97 + (i - 26)
  ELSE IF i < 62 THEN 48 + (i - 52)
  ELSE IF i = 62 THEN 43
  ELSE 47

\* base64.b64encode: 4 characters per 3 bytes, "=" padded.
B64Encode(b) ==
  LET n == Len(b)
      byte(k) == IF k <= n THEN b[k] ELSE 0
      char(j) ==
        LET g == (j - 1) \div 4
            pos == (j - 1) % 4
            b0 == byte(3 * g + 1)
            b1 == byte(3 * g + 2)
            b2 == byte(3 * g + 3)
        IN  CASE pos = 0 -> B64Alphabet(b0 \div 4)
              [] pos = 1 -> B64Alphabet((b0 % 4) * 16 + (b1 \div 16))
              [] pos = 2 -> IF 3 * g + 2 > n THEN 61
                            ELSE B64Alphabet((b1 % 16) * 4 + (b2 \div 64))
              [] pos = 3 -> IF 3 * g + 3 > n THEN 61
                            ELSE B64Alphabet(b2 % 64)
  IN  [j \in 1..(4 * ((n + 2) \div 3)) |-> char(j)]

\* base64.b64encode: the standard alphabet, no character translated.
StandardAlphabet(c) == c

\* bytes.translate(_urlsafe_encode_translation): "+" -> "-", "/" -> "_".
UrlSafeTranslate(c) == IF c = 43 THEN 45 ELSE IF c = 47 THEN 95 ELSE c

UrlSafeB64Encode(b) ==
  LET e == B64Encode(b) IN [j \in 1..Len(e) |-> UrlSafeTranslate(e[j])]

\* base64.urlsafe_b64encode(b).decode().rstrip('=')
B64UrlNoPad(b) == RStrip(BytesDecode(UrlSafeB64Encode(b)), 61)

(***************************************************************************)
(* Python values, as json.dumps distinguishes them.  A mapping is the      *)
(* sequence of its (key, value) pairs in insertion order.  Ref stands for  *)
(* a reference back to a container that encloses it (a cyclic structure),  *)
(* Set for a value of a type the encoder does not know.                    *)
(***************************************************************************)
PyNone == [t |-> "None"]

PyBool(b) == [t |-> "bool", b |-> b]

PyInt(i) == [t |-> "int", i |-> i]

\* A float: f is "finite" (the integral value n, as in 2.0), "nan", "inf"
\* or "-inf".
PyFloat(f, n) == [t |-> "float", f |-> f, n |-> n]

PyStr(s) == [t |-> "str", s |-> s]

PyList(items) == [t |-> "list", items |-> items]

PyTuple(items) == [t |-> "tuple", items |-> items]

PyDict(pairs) == [t |-> "dict", pairs |-> pairs]

PySet == [t |-> "set"]

PyRef == [t |-> "ref"]

(***************************************************************************)
(* json.dumps(payload, separators=(',', ':')), with the defaults           *)
(* ensure_ascii=True, allow_nan=True, check_circular=True,                 *)
(* sort_keys=False, skipkeys=False.                                        *)
(***************************************************************************)
\* separators=(',', ':')
ItemSeparator == <<44>>

KeySeparator == <<58>>

Ok(text) == [ok |-> TRUE, text |-> text]

Raise(exc) == [ok |-> FALSE, exc |-> exc]

RECURSIVE Digits(_)
Digits(n) == IF n < 10 THEN <<48 + n>> ELSE Append(Digits(n \div 10), 48 + (n % 10))

\* int.__repr__
IntStr(i) == IF i < 0 THEN <<45>> \o Digits(-i) ELSE Digits(i)

\* float.__repr__, and the names allow_nan=True gives the non-finite values.
FloatStr(v) ==
  CASE v.f = "nan" -> <<78, 97, 78>>
    [] v.f = "inf" -> <<73, 110, 102, 105, 110, 105, 116, 121>>
    [] v.f = "-inf" -> <<45, 73, 110, 102, 105, 110, 105, 116, 121>>
    [] OTHER -> IntStr(v.n) \o <<46, 48>>

HexDigit(d) == IF d < 10 THEN 48 + d ELSE 87 + d

\* '\\u{0:04x}'
UEscape(n) ==
  <<92, 117, HexDigit(n \div 4096), HexDigit((n \div 256) % 16),
    HexDigit((n \div 16) % 16), HexDigit(n % 16)>>

\* One character under ensure_ascii: ESCAPE_DCT, \uXXXX outside " ".."~",
\* a surrogate pair above the basic plane.
EscapeChar(c) ==
  CASE c = 34 -> <<92, 34>>
    [] c = 92 -> <<92, 92>>
    [] c = 10 -> <<92, 110>>
    [] c = 13 -> <<92, 114>>
    [] c = 9 -> <<92, 116>>
    [] c = 8 -> <<92, 98>>
    [] c = 12 -> <<92, 102>>
    [] OTHER ->
         IF c >= 32 /\ c <= 126 THEN <<c>>
         ELSE IF c < 65536 THEN UEscape(c)
         ELSE UEscape(55296 + (((c - 65536) \div 1024) % 1024))
              \o UEscape(56320 + ((c - 65536) % 1024))

\* '"' + s + '"': the string between quotes, nothing escaped.
EncodeStrRaw(s) == <<34>> \o s \o <<34>>

\* py_encode_basestring_ascii
EncodeStr(s) ==
  <<34>> \o Flatten([i \in 1..Len(s) |-> EscapeChar(s[i])]) \o <<34>>

\* The text a mapping key is coerced to, before it is written as a string.
KeyStr(k) ==
  CASE k.t = "str" -> Ok(k.s)
    [] k.t = "float" -> Ok(FloatStr(k))
    [] k.t = "bool" -> Ok(IF k.b THEN <<116, 114, 117, 101>>
                          ELSE <<102, 97, 108, 115, 101>>)
    [] k.t = "None" -> Ok(<<110, 117, 108, 108>>)
    [] k.t = "int" -> Ok(IntStr(k.i))
    [] OTHER -> Raise("TypeError")

\* The index of the first failed result, 0 when there is none.
FirstFailure(rs) ==
  LET bad == {i \in 1..Len(rs) : ~rs[i].ok}
  IN  IF bad = {} THEN 0 ELSE CHOOSE i \in bad : \A j \in bad : i <= j

\* The texts joined by the item separator.
Join(texts) ==
  Flatten([i \in 1..Len(texts) |->
             IF i = 1 THEN texts[i] ELSE ItemSeparator \o texts[i]])

RECURSIVE Encode(_)
Encode(v) ==
  CASE v.t = "None" -> Ok(<<110, 117, 108, 108>>)
    [] v.t = "bool" -> Ok(IF v.b THEN <<116, 114, 117, 101>>
                          ELSE <<102, 97, 108, 115, 101>>)
    [] v.t = "int" -> Ok(IntStr(v.i))
    [] v.t = "float" -> Ok(FloatStr(v))
    [] v.t = "str" -> Ok(EncodeStr(v.s))
    [] v.t \in {"list", "tuple"} ->
         LET rs == [i \in 1..Len(v.items) |-> Encode(v.items[i])]
             bad == FirstFailure(rs)
         IN  IF bad # 0 THEN rs[bad]
             ELSE Ok(<<91>> \o Join([i \in 1..Len(rs) |-> rs[i].text]) \o <<93>>)
    [] v.t = "dict" ->
         LET rs == [i \in 1..Len(v.pairs) |->
                      LET k == KeyStr(v.pairs[i][1])
                          e == Encode(v.pairs[i][2])
                      IN  IF ~k.ok THEN k
                          ELSE IF ~e.ok THEN e
                          ELSE Ok(EncodeStr(k.text) \o KeySeparator \o e.text)]
             bad == FirstFailure(rs)
         IN  IF bad # 0 THEN rs[bad]
             ELSE Ok(<<123>> \o Join([i \in 1..Len(rs) |-> rs[i].text]) \o <<125>>)
    [] v.t = "ref" -> Raise("ValueError")
    [] OTHER -> Raise("TypeError")

\* s < t for two texts, as str compares them.
SeqLess(s, t) ==
  \E i \in 1..Len(t) :
    /\ \A j \in 1..(i - 1) : j <= Len(s) /\ s[j] = t[j]
    /\ i > Len(s) \/ s[i] < t[i]

KeyText(k) == IF KeyStr(k).ok THEN KeyStr(k).text ELSE <<>>

\* The pair pr put into the pairs ps, which are sorted by key.
InsertPair(ps, pr) ==
  LET n == Cardinality({i \in 1..Len(ps) :
                          ~SeqLess(KeyText(pr[1]), KeyText(ps[i][1]))})
  IN  SubSeq(ps, 1, n) \o <<pr>> \o SubSeq(ps, n + 1, Len(ps))

RECURSIVE SortPairs(_)
SortPairs(ps) ==
  IF ps = <<>> THEN <<>>
  ELSE InsertPair(SortPairs(SubSeq(ps, 1, Len(ps) - 1)), ps[Len(ps)])

\* The value with the pairs of every mapping in it sorted by key.
RECURSIVE SortKeys(_)
SortKeys(v) ==
  CASE v.t = "dict" ->
         PyDict(SortPairs([i \in 1..Len(v.pairs) |->
                             <<v.pairs[i][1], SortKeys(v.pairs[i][2])>>]))
    [] v.t \in {"list", "tuple"} ->
         [v EXCEPT !.items = [i \in 1..Len(v.items) |-> SortKeys(v.items[i])]]
    [] OTHER -> v

\* json.dumps(payload, separators=(',', ':'), sort_keys=True)
JsonDumpsSortKeys(payload) == Encode(SortKeys(payload))

\* json.dumps(payload, separators=(',', ':'))
JsonDumps(payload) == Encode(payload)

(***************************************************************************)
(* The verifying counterpart's reading of a token: split on ".", restore   *)
(* the padding, base64url-decode, parse the JSON text (RFC 8259).          *)
(***************************************************************************)
\* The positions of the "." characters of a token.
DotPositions(token) == {i \in 1..Len(token) : token[i] = 46}

\* The part of the token before its first ".", the part after its last ".".
BeforeFirstDot(token) ==
  LET d == CHOOSE i \in DotPositions(token) : \A j \in DotPositions(token) : i <= j
  IN  SubSeq(token, 1, d - 1)

AfterLastDot(token) ==
  LET d == CHOOSE i \in DotPositions(token) : \A j \in DotPositions(token) : j <= i
  IN  SubSeq(token, d + 1, Len(token))

\* s + "=" * (-len(s) % 4)
RestorePadding(s) == s \o [i \in 1..((4 - (Len(s) % 4)) % 4) |-> 61]

\* The value of a character of the URL-safe alphabet, -1 for any other.
B64UrlValue(c) ==
  IF c >= 65 /\ c <= 90 THEN c - 65
  ELSE IF c >= 97 /\ c <= 122 THEN c - 71
  ELSE IF c >= 48 /\ c <= 57 THEN c + 4
  ELSE IF c = 45 THEN 62
  ELSE IF c = 95 THEN 63
  ELSE -1

\* base64.urlsafe_b64decode of a padded text.
B64UrlDecode(s) ==
  LET n == Len(s)
      pad == IF n >= 2 /\ s[n] = 61 /\ s[n - 1] = 61 THEN 2
             ELSE IF n >= 1 /\ s[n] = 61 THEN 1
             ELSE 0
      val(j) == IF j > n - pad THEN 0 ELSE B64UrlValue(s[j])
      byte(k) ==
        LET g == (k - 1) \div 3
            pos == (k - 1) % 3
            v0 == val(4 * g + 1)
            v1 == val(4 * g + 2)
            v2 == val(4 * g + 3)
            v3 == val(4 * g + 4)
        IN  CASE pos = 0 -> v0 * 4 + (v1 \div 16)
              [] pos = 1 -> (v1 % 16) * 16 + (v2 \div 4)
              [] pos = 2 -> (v2 % 4) * 64 + v3
  IN  IF n % 4 # 0 \/ \E j \in 1..(n - pad) : B64UrlValue(s[j]) < 0
      THEN [ok |-> FALSE]
      ELSE [ok |-> TRUE, bytes |-> [k \in 1..(3 * (n \div 4) - pad) |-> byte(k)]]

ParseFail == [ok |-> FALSE]

ParseOk(val, next) == [ok |-> TRUE, val |-> val, next |-> next]

IsDigit(c) == c >= 48 /\ c <= 57

IsWs(c) == c \in {32, 9, 10, 13}

At(s, i) == IF i >= 1 /\ i <= Len(s) THEN s[i] ELSE -1

RECURSIVE SkipWs(_, _)
SkipWs(s, i) == IF IsWs(At(s, i)) THEN SkipWs(s, i + 1) ELSE i

\* The first position at or after i that holds no digit.
RECURSIVE DigitsEnd(_, _)
DigitsEnd(s, i) == IF IsDigit(At(s, i)) THEN DigitsEnd(s, i + 1) ELSE i

\* The number the digits s[i..j-1] spell.
RECURSIVE DigitsValue(_, _, _)
DigitsValue(s, i, j) ==
  IF i >= j THEN 0 ELSE DigitsValue(s, i, j - 1) * 10 + (s[j - 1] - 48)

HexValue(c) ==
  IF IsDigit(c) THEN c - 48
  ELSE IF c >= 97 /\ c <= 102 THEN c - 87
  ELSE IF c >= 65 /\ c <= 70 THEN c - 55
  ELSE -1

\* The code unit of the four hex digits at s[i..i+3], -1 when they are not.
Hex4Value(s, i) ==
  LET h == [k \in 0..3 |-> HexValue(At(s, i + k))]
  IN  IF \E k \in 0..3 : h[k] < 0 THEN -1
      ELSE h[0] * 4096 + h[1] * 256 + h[2] * 16 + h[3]

\* number = [ "-" ] int [ frac ] [ exp ]
ParseNumber(s, i) ==
  LET neg == At(s, i) = 45
      i0 == IF neg THEN i + 1 ELSE i
      i1 == DigitsEnd(s, i0)
      hasFrac == At(s, i1) = 46
      i2 == IF hasFrac THEN DigitsEnd(s, i1 + 1) ELSE i1
      hasExp == At(s, i2) \in {101, 69}
      e0 == IF At(s, i2 + 1) \in {43, 45} THEN i2 + 2 ELSE i2 + 1
      i3 == IF hasExp THEN DigitsEnd(s, e0) ELSE i2
      whole == DigitsValue(s, i0, i1)
      frac == IF hasFrac THEN DigitsValue(s, i1 + 1, i2) ELSE 0
      sign == IF neg THEN -1 ELSE 1
  IN  IF i1 = i0 \/ (At(s, i0) = 48 /\ i1 > i0 + 1) THEN ParseFail
      ELSE IF hasFrac /\ i2 = i1 + 1 THEN ParseFail
      ELSE IF hasExp /\ i3 = e0 THEN ParseFail
      ELSE IF ~hasFrac /\ ~hasExp THEN ParseOk(PyInt(sign * whole), i3)
      ELSE IF frac = 0 /\ ~hasExp THEN ParseOk(PyFloat("finite", sign * whole), i3)
      ELSE ParseOk(PyFloat("inexact", sign * whole), i3)

\* The characters of a string from position i on, up to its closing quote.
RECURSIVE ParseChars(_, _, _)
ParseChars(s, i, acc) ==
  LET c == At(s, i)
      e == At(s, i + 1)
      u == Hex4Value(s, i + 2)
      lo == IF At(s, i + 6) = 92 /\ At(s, i + 7) = 117
            THEN Hex4Value(s, i + 8) ELSE -1
  IN  IF c < 32 THEN ParseFail
      ELSE IF c = 34 THEN ParseOk(PyStr(acc), i + 1)
      ELSE IF c # 92 THEN ParseChars(s, i + 1, Append(acc, c))
      ELSE IF e = 34 \/ e = 92 \/ e = 47 THEN ParseChars(s, i + 2, Append(acc, e))
      ELSE IF e = 98 THEN ParseChars(s, i + 2, Append(acc, 8))
      ELSE IF e = 102 THEN ParseChars(s, i + 2, Append(acc, 12))
      ELSE IF e = 110 THEN ParseChars(s, i + 2, Append(acc, 10))
      ELSE IF e = 114 THEN ParseChars(s, i + 2, Append(acc, 13))
      ELSE IF e = 116 THEN ParseChars(s, i + 2, Append(acc, 9))
      ELSE IF e # 117 \/ u < 0 THEN ParseFail
      ELSE IF u >= 55296 /\ u <= 56319 /\ lo >= 56320 /\ lo <= 57343
        THEN ParseChars(s, i + 12,
                        Append(acc, 65536 + (u - 55296) * 1024 + (lo - 56320)))
      ELSE ParseChars(s, i + 6, Append(acc, u))

ParseString(s, i) == IF At(s, i) = 34 THEN ParseChars(s, i + 1, <<>>) ELSE ParseFail

\* Whether the text w stands at position i of s.
Matches(s, i, w) == \A k \in 1..Len(w) : At(s, i + k - 1) = w[k]

\* dict[key] = value: a key already there keeps its place.
DictSet(pairs, k, v) ==
  IF \E i \in 1..Len(pairs) : pairs[i][1] = k
  THEN [i \in 1..Len(pairs) |-> IF pairs[i][1] = k THEN <<k, v>> ELSE pairs[i]]
  ELSE Append(pairs, <<k, v>>)

RECURSIVE ParseValue(_, _)
RECURSIVE ParseElements(_, _, _)
RECURSIVE ParseMembers(_, _, _)

\* value = object / array / string / number / true / false / null
ParseValue(s, i) ==
  LET c == At(s, i)
      j == SkipWs(s, i + 1)
  IN  CASE c = 123 -> IF At(s, j) = 125 THEN ParseOk(PyDict(<<>>), j + 1)
                      ELSE ParseMembers(s, j, <<>>)
        [] c = 91 -> IF At(s, j) = 93 THEN ParseOk(PyList(<<>>), j + 1)
                     ELSE ParseElements(s, j, <<>>)
        [] c = 34 -> ParseString(s, i)
        [] c = 45 \/ IsDigit(c) -> ParseNumber(s, i)
        [] c = 116 -> IF Matches(s, i, <<116, 114, 117, 101>>)
                      THEN ParseOk(PyBool(TRUE), i + 4) ELSE ParseFail
        [] c = 102 -> IF Matches(s, i, <<102, 97, 108, 115, 101>>)
                      THEN ParseOk(PyBool(FALSE), i + 5) ELSE ParseFail
        [] c = 110 -> IF Matches(s, i, <<110, 117, 108, 108>>)
                      THEN ParseOk(PyNone, i + 4) ELSE ParseFail
        [] OTHER -> ParseFail

\* The elements of an array from position i on, up to its closing bracket.
ParseElements(s, i, acc) ==
  LET r == ParseValue(s, i)
      j == SkipWs(s, r.next)
  IN  IF ~r.ok THEN ParseFail
      ELSE IF At(s, j) = 93 THEN ParseOk(PyList(Append(acc, r.val)), j + 1)
      ELSE IF At(s, j) = 44
        THEN ParseElements(s, SkipWs(s, j + 1), Append(acc, r.val))
      ELSE ParseFail

\* The members of an object from position i on, up to its closing brace.
ParseMembers(s, i, acc) ==
  LET k == ParseString(s, i)
      c == SkipWs(s, k.next)
      r == ParseValue(s, SkipWs(s, c + 1))
      j == SkipWs(s, r.next)
  IN  IF ~k.ok THEN ParseFail
      ELSE IF At(s, c) # 58 THEN ParseFail
      ELSE IF ~r.ok THEN ParseFail
      ELSE IF At(s, j) = 125
        THEN ParseOk(PyDict(DictSet(acc, k.val, r.val)), j + 1)
      ELSE IF At(s, j) = 44
        THEN ParseMembers(s, SkipWs(s, j + 1), DictSet(acc, k.val, r.val))
      ELSE ParseFail

\* The value a JSON text stands for; a text that is not JSON fails.
JsonParse(s) ==
  LET r == ParseValue(s, SkipWs(s, 1))
  IN  IF r.ok /\ SkipWs(s, r.next) = Len(s) + 1
      THEN [ok |-> TRUE, val |-> r.val]
      ELSE [ok |-> FALSE]

\* What the verifier recovers from a token: the payload, or a failure.
RecoverPayload(token) ==
  LET b == B64UrlDecode(RestorePadding(BeforeFirstDot(token)))
  IN  IF DotPositions(token) = {} \/ ~b.ok THEN [ok |-> FALSE]
      ELSE JsonParse(BytesDecode(b.bytes))

(***************************************************************************)
(* The inputs the calls are made with.                                     *)
(***************************************************************************)
\* How many entries of PayloadList and of KeyList the calls draw from.
NumPayloads == 18

NumKeys == 6

\* Every payload is signed with the first NumSweepKeys keys, and the first
\* NumSweepPayloads payloads are signed with every key.
NumSweepKeys == 2

NumSweepPayloads == 2

\* How many activations of the function may be in progress at once, and
\* how many payloads and keys the concurrent callers draw from.
MaxCalls == 2

NumConcPayloads == 2

NumConcKeys == 2

StrA == PyStr(<<97>>)

StrB == PyStr(<<98>>)

PayloadList ==
  << \* {"user_id": 42, "action": "upload"}
     PyDict(<< <<PyStr(<<117, 115, 101, 114, 95, 105, 100>>), PyInt(42)>>,
               <<PyStr(<<97, 99, 116, 105, 111, 110>>),
                 PyStr(<<117, 112, 108, 111, 97, 100>>)>> >>),
     \* {"a": 1}
     PyDict(<< <<StrA, PyInt(1)>> >>),
     \* {"a": 2}
     PyDict(<< <<StrA, PyInt(2)>> >>),
     \* {}
     PyDict(<< >>),
     \* {"a": 1, "b": 2}
     PyDict(<< <<StrA, PyInt(1)>>, <<StrB, PyInt(2)>> >>),
     \* {"b": 2, "a": 1}
     PyDict(<< <<StrB, PyInt(2)>>, <<StrA, PyInt(1)>> >>),
     \* {"a": [1, 2]}
     PyDict(<< <<StrA, PyList(<<PyInt(1), PyInt(2)>>)>> >>),
     \* {"a": (1, 2)}
     PyDict(<< <<StrA, PyTuple(<<PyInt(1), PyInt(2)>>)>> >>),
     \* {"a": {1: "x"}}
     PyDict(<< <<StrA, PyDict(<< <<PyInt(1), PyStr(<<120>>)>> >>)>> >>),
     \* {"a": {"1": "x"}}
     PyDict(<< <<StrA, PyDict(<< <<PyStr(<<49>>), PyStr(<<120>>)>> >>)>> >>),
     \* {"a": float("nan")}
     PyDict(<< <<StrA, PyFloat("nan", 0)>> >>),
     \* {"a": float("inf")}
     PyDict(<< <<StrA, PyFloat("inf", 0)>> >>),
     \* {"a": {1, 2}}: a set is not JSON serializable
     PyDict(<< <<StrA, PySet>> >>),
     \* d = {}; d["a"] = d
     PyDict(<< <<StrA, PyRef>> >>),
     \* {"a": "é\"/"}
     PyDict(<< <<StrA, PyStr(<<233, 34, 47>>)>> >>),
     \* {"a": None, "b": [True, 2.0]}
     PyDict(<< <<StrA, PyNone>>,
               <<StrB, PyList(<<PyBool(TRUE), PyFloat("finite", 2)>>)>> >>),
     \* {"c": {"a": 1, "b": 2}}
     PyDict(<< <<PyStr(<<99>>),
                 PyDict(<< <<StrA, PyInt(1)>>, <<StrB, PyInt(2)>> >>)>> >>),
     \* {"c": {"b": 2, "a": 1}}
     PyDict(<< <<PyStr(<<99>>),
                 PyDict(<< <<StrB, PyInt(2)>>, <<StrA, PyInt(1)>> >>)>> >>),
     \* {"a": float("-inf")}
     PyDict(<< <<StrA, PyFloat("-inf", 0)>> >>),
     \* {"a": 10}
     PyDict(<< <<StrA, PyInt(10)>> >>)
  >>

KeyList ==
  << \* "test-secret"
     <<116, 101, 115, 116, 45, 115, 101, 99, 114, 101, 116>>,
     \* "k"
     <<107>>,
     \* "k\0"
     <<107, 0>>,
     \* 65 times "a": longer than the HMAC block
     [i \in 1..65 |-> 97],
     \* "é"
     <<233>>,
     \* a lone surrogate, "\ud800"
     <<55296>>,
     \* ""
     <<>>,
     \* "j"
     <<106>>
  >>

PayloadIds == 1..NumPayloads

KeyIds == 1..NumKeys

\* The (payload, key) pairs the sequential caller calls the function with.
CallInputs ==
  {pk \in PayloadIds \X KeyIds :
     pk[1] <= NumSweepPayloads \/ pk[2] <= NumSweepKeys}

ConcPayloadIds == 1..NumConcPayloads

ConcKeyIds == 1..NumConcKeys

Calls == 1..MaxCalls

(***************************************************************************)
(* hmac.new(...).digest() on the inputs above, computed once.              *)
(***************************************************************************)
KeyBytesSet ==
  {StrEncode(KeyList[k]).bytes :
     k \in {j \in 1..Len(KeyList) : j <= NumKeys /\ StrEncode(KeyList[j]).ok}}

MessageSet ==
  {B64UrlNoPad(StrEncode(JsonDumps(PayloadList[p]).text).bytes) :
     p \in {j \in 1..Len(PayloadList) :
              j <= NumPayloads /\ JsonDumps(PayloadList[j]).ok}}

HmacTable ==
  [key \in KeyBytesSet |-> [msg \in MessageSet |-> HmacSha256(key, msg)]]

HmacDigest(key, msg) ==
  IF key \in KeyBytesSet /\ msg \in MessageSet
  THEN HmacTable[key][msg]
  ELSE HmacSha256(key, msg)

\* The block key hmac.new derives from each of these keys, computed once.
BlockKeyTable == [key \in KeyBytesSet |-> HmacBlockKey(key)]

BlockKeyOf(key) ==
  IF key \in KeyBytesSet THEN BlockKeyTable[key] ELSE HmacBlockKey(key)

(***************************************************************************)
(* The state: the activations of generate_upload_signature, each with its  *)
(* position and its locals, and the outcome of the last one that ended.    *)
(***************************************************************************)
VARIABLES calls, last

vars == <<calls, last>>

\* A local that is not bound yet.
Unbound == <<>>

Idle ==
  [pc |-> "idle", payload |-> PyNone, secret_key |-> Unbound,
   payload_json |-> Unbound, payload_base64 |-> Unbound,
   signature |-> Unbound, signature_base64 |-> Unbound,
   result |-> Unbound, exc |-> "none"]

\* The activation generate_upload_signature(payload, secret_key) starts as.
Start(payload, secret_key) ==
  [Idle EXCEPT !.pc = "line10", !.payload = payload, !.secret_key = secret_key]

Raised(a, exc) == [a EXCEPT !.pc = "raised", !.exc = exc]

Ended(a) == a.pc \in {"returned", "raised"}

\* Line 10: payload_json = json.dumps(payload, separators=(',', ':'))
StepLine10(a) ==
  LET r == JsonDumps(a.payload)
  IN  IF r.ok THEN [a EXCEPT !.pc = "line11", !.payload_json = r.text]
      ELSE Raised(a, r.exc)

\* Line 11: payload_base64 =
\*   base64.urlsafe_b64encode(payload_json.encode()).decode().rstrip('=')
StepLine11(a) ==
  LET b == StrEncode(a.payload_json)
  IN  IF b.ok
      THEN [a EXCEPT !.pc = "line13", !.payload_base64 = B64UrlNoPad(b.bytes)]
      ELSE Raised(a, b.exc)

\* Line 14: the key hmac.new is given.
HmacKey(a) == StrEncode(a.secret_key)

\* payload_json.encode() as the message: the JSON text signed, not its
\* encoding.
HmacMessageRawJson(a) == StrEncode(a.payload_json)

\* Line 15: the message hmac.new is given.
HmacMessage(a) == StrEncode(a.payload_base64)

\* Lines 13-17: signature = hmac.new(secret_key.encode(),
\*   payload_base64.encode(), hashlib.sha256).digest()
StepLine13(a) ==
  LET key == HmacKey(a)
      msg == HmacMessage(a)
  IN  IF ~key.ok THEN Raised(a, key.exc)
      ELSE IF ~msg.ok THEN Raised(a, msg.exc)
      ELSE [a EXCEPT !.pc = "line18",
                     !.signature = HmacDigest(key.bytes, msg.bytes)]

\* Line 18 with signature a module-level name every activation assigns.
StepLine18Shared(a) ==
  [a EXCEPT !.pc = "line20",
            !.signature_base64 = B64UrlNoPad(calls[1].signature)]

\* Line 18: signature_base64 =
\*   base64.urlsafe_b64encode(signature).decode().rstrip('=')
StepLine18(a) ==
  [a EXCEPT !.pc = "line20", !.signature_base64 = B64UrlNoPad(a.signature)]

\* return f"{payload_json}.{signature_base64}"
StepLine20RawJson(a) ==
  [a EXCEPT !.pc = "returned",
            !.result = a.payload_json \o <<46>> \o a.signature_base64]

\* Line 20: return f"{payload_base64}.{signature_base64}"
StepLine20(a) ==
  [a EXCEPT !.pc = "returned",
            !.result = a.payload_base64 \o <<46>> \o a.signature_base64]

NoCall == [outcome |-> "none", payload |-> PyNone, secret_key |-> Unbound,
           result |-> Unbound, exc |-> "none"]

\* What the caller sees of an activation that ended.
Outcome(a) ==
  [outcome |-> a.pc, payload |-> a.payload, secret_key |-> a.secret_key,
   result |-> a.result, exc |-> a.exc]

Init ==
  /\ calls = [c \in Calls |-> Idle]
  /\ last = NoCall

\* A caller calls generate_upload_signature(payload, secret_key) in slot c.
Invoke(c, payload, secret_key) ==
  /\ calls[c].pc = "idle" \/ Ended(calls[c])
  /\ calls' = [calls EXCEPT ![c] = Start(payload, secret_key)]

\* The sequential caller: it keeps the outcome of its previous call.
Call(c) ==
  \E pk \in CallInputs :
    /\ Invoke(c, PayloadList[pk[1]], KeyList[pk[2]])
    /\ last' = IF Ended(calls[c]) THEN Outcome(calls[c]) ELSE last

\* One of several concurrent callers.
ConcCall(c) ==
  \E p \in ConcPayloadIds, k \in ConcKeyIds :
    /\ Invoke(c, PayloadList[p], KeyList[k])
    /\ UNCHANGED last

Line10(c) ==
  /\ calls[c].pc = "line10"
  /\ calls' = [calls EXCEPT ![c] = StepLine10(calls[c])]
  /\ UNCHANGED last

Line11(c) ==
  /\ calls[c].pc = "line11"
  /\ calls' = [calls EXCEPT ![c] = StepLine11(calls[c])]
  /\ UNCHANGED last

Line13(c) ==
  /\ calls[c].pc = "line13"
  /\ calls' = [calls EXCEPT ![c] = StepLine13(calls[c])]
  /\ UNCHANGED last

Line18(c) ==
  /\ calls[c].pc = "line18"
  /\ calls' = [calls EXCEPT ![c] = StepLine18(calls[c])]
  /\ UNCHANGED last

Line20(c) ==
  /\ calls[c].pc = "line20"
  /\ calls' = [calls EXCEPT ![c] = StepLine20(calls[c])]
  /\ UNCHANGED last

\* One caller, one call after the other.
Next ==
  \/ Call(1)
  \/ Line10(1)
  \/ Line11(1)
  \/ Line13(1)
  \/ Line18(1)
  \/ Line20(1)

Spec == Init /\ [][Next]_vars

\* Up to MaxCalls callers, their calls interleaved line by line.
ConcNext ==
  \E c \in Calls :
    \/ ConcCall(c)
    \/ Line10(c)
    \/ Line11(c)
    \/ Line13(c)
    \/ Line18(c)
    \/ Line20(c)

SpecConc == Init /\ [][ConcNext]_vars

(***************************************************************************)
(* Properties.                                                             *)
(***************************************************************************)
\* The activation of the sequential caller.
cur == calls[1]

\* The two segments of a returned token.
PayloadSegment(token) == BeforeFirstDot(token)

SignatureSegment(token) == AfterLastDot(token)

\* The sequential caller's previous call and its present one both returned.
BothReturned == last.outcome = "returned" /\ cur.pc = "returned"

\* generate_upload_signature({"user_id": 42, "action": "upload"},
\* "test-secret"), as CPython returns it.
ScenarioToken ==
  <<101, 121, 74, 49, 99, 50, 86, 121, 88, 50, 108, 107, 73, 106, 111, 48,
    77, 105, 119, 105, 89, 87, 78, 48, 97, 87, 57, 117, 73, 106, 111, 105,
    100, 88, 66, 115, 98, 50, 70, 107, 73, 110, 48, 46, 120, 65, 111, 52,
    65, 74, 103, 103, 66, 82, 103, 113, 45, 114, 117, 53, 80, 56, 84, 113,
    76, 67, 68, 84, 81, 79, 104, 105, 98, 76, 77, 74, 116, 57, 88, 49, 87,
    115, 70, 84, 90, 69, 65>>

\* E + "." + S for the encoded payload E and the key bytes: S is the
\* unpadded URL-safe base64 of the HMAC over the characters of E as bytes.
TokenFor(E, key) == E \o <<46>> \o B64UrlNoPad(HmacDigest(key, E))

\* C1: whenever generate_upload_signature returns, the result is E + "." + S
\* with E the unpadded URL-safe base64 of the UTF-8 bytes of the compact
\* JSON text of the payload and S the unpadded URL-safe base64 of
\* HMAC-SHA256, keyed with the bytes of the secret key, over the ASCII bytes
\* of E itself; for the specification's scenario it is the token CPython
\* returns.
C1_TokenFormula ==
  \A c \in Calls :
    calls[c].pc = "returned" =>
      /\ \A i \in 1..Len(calls[c].payload_base64) :
           calls[c].payload_base64[i] < 128
      /\ calls[c].result =
           TokenFor(B64UrlNoPad(StrEncode(JsonDumps(calls[c].payload).text).bytes),
                    StrEncode(calls[c].secret_key).bytes)
      /\ (calls[c].payload = PayloadList[1] /\ calls[c].secret_key = KeyList[1]
            => calls[c].result = ScenarioToken)

C1_ScenarioReturned ==
  /\ cur.pc = "returned"
  /\ cur.payload = PayloadList[1]
  /\ cur.secret_key = KeyList[1]
  /\ cur.result = ScenarioToken

\* C2: two calls with the same payload and the same secret key end the same
\* way, with the identical token, whatever other calls ran before them or
\* are interleaved with them.
C2_Deterministic ==
  \A c, d \in Calls :
    (/\ Ended(calls[c])
     /\ Ended(calls[d])
     /\ calls[c].payload = calls[d].payload
     /\ calls[c].secret_key = calls[d].secret_key)
    => /\ calls[c].pc = calls[d].pc
       /\ calls[c].result = calls[d].result
       /\ calls[c].exc = calls[d].exc

C2_SameCallTwice ==
  /\ calls[1].pc = "returned"
  /\ calls[2].pc = "returned"
  /\ calls[1].payload = calls[2].payload
  /\ calls[1].secret_key = calls[2].secret_key
  /\ calls[1].result = calls[2].result

\* A value JSON has no representation for somewhere in v: a non-finite
\* number, a reference back to an enclosing container, a value of an
\* unsupported type.
RECURSIVE NotJsonRepresentable(_)
NotJsonRepresentable(v) ==
  CASE v.t = "float" -> v.f # "finite"
    [] v.t \in {"ref", "set"} -> TRUE
    [] v.t \in {"list", "tuple"} ->
         \E i \in 1..Len(v.items) : NotJsonRepresentable(v.items[i])
    [] v.t = "dict" ->
         \E i \in 1..Len(v.pairs) : NotJsonRepresentable(v.pairs[i][2])
    [] OTHER -> FALSE

\* C3: a call whose payload contains a value JSON cannot represent never
\* returns a token; it ends with a serialization error.
C3_NonJsonPayloadRaises ==
  \A c \in Calls :
    (Ended(calls[c]) /\ NotJsonRepresentable(calls[c].payload))
    => /\ calls[c].pc = "raised"
       /\ calls[c].exc \in {"ValueError", "TypeError"}

\* The sequential caller's previous and present call both returned, for the
\* same payload under two different keys.
SamePayloadOtherKey ==
  /\ BothReturned
  /\ last.payload = cur.payload
  /\ last.secret_key # cur.secret_key

\* C4 as stated: for a fixed payload, any two different secret keys give
\* different tokens.
C4_KeySensitivity == SamePayloadOtherKey => last.result # cur.result

\* C4: for a fixed payload, two different secret keys give the same token
\* exactly when HMAC derives the same block key from them (the key, hashed
\* when longer than the block, right-padded with NUL bytes).
C4_BlockKeySensitivity ==
  SamePayloadOtherKey =>
    ((last.result = cur.result)
       <=> (BlockKeyOf(StrEncode(last.secret_key).bytes)
              = BlockKeyOf(StrEncode(cur.secret_key).bytes)))

C4_LongKeyDiffers ==
  /\ SamePayloadOtherKey
  /\ last.secret_key = KeyList[4]
  /\ cur.secret_key = KeyList[2]
  /\ last.result # cur.result

\* The mappings p and q have the same keys in the same order and differ in
\* the value of exactly one field.
DiffersInOneField(p, q) ==
  /\ p.t = "dict"
  /\ q.t = "dict"
  /\ Len(p.pairs) = Len(q.pairs)
  /\ \A i \in 1..Len(p.pairs) : p.pairs[i][1] = q.pairs[i][1]
  /\ Cardinality({i \in 1..Len(p.pairs) : p.pairs[i][2] # q.pairs[i][2]}) = 1

\* The sequential caller's previous and present call both returned, for the
\* same key and payloads that differ in the value of one field.
SameKeyOtherValue ==
  /\ BothReturned
  /\ last.secret_key = cur.secret_key
  /\ DiffersInOneField(last.payload, cur.payload)

SegmentsDiffer(t, u) ==
  /\ PayloadSegment(t) # PayloadSegment(u)
  /\ SignatureSegment(t) # SignatureSegment(u)

\* C5 as stated: for a fixed key, replacing the value of one field by any
\* different value changes the payload segment and the signature segment.
C5_PayloadSensitivity ==
  SameKeyOtherValue => SegmentsDiffer(last.result, cur.result)

\* C5: for a fixed key, replacing the value of one field changes both
\* segments when the two payloads have different JSON texts, and leaves the
\* token the same when they have the same JSON text.
C5_JsonTextSensitivity ==
  SameKeyOtherValue =>
    IF JsonDumps(last.payload).text = cur.payload_json
    THEN last.result = cur.result
    ELSE SegmentsDiffer(last.result, cur.result)

C5_FieldValueChanged ==
  /\ SameKeyOtherValue
  /\ last.payload = PayloadList[2]
  /\ cur.payload = PayloadList[3]
  /\ SegmentsDiffer(last.result, cur.result)

\* The value as JSON holds it: a tuple is an array, a mapping key is the
\* string it is coerced to.
RECURSIVE AsJsonPairs(_)
RECURSIVE AsJson(_)
AsJsonPairs(pairs) ==
  IF pairs = <<>> THEN <<>>
  ELSE DictSet(AsJsonPairs(SubSeq(pairs, 1, Len(pairs) - 1)),
               PyStr(KeyText(pairs[Len(pairs)][1])),
               AsJson(pairs[Len(pairs)][2]))

AsJson(v) ==
  CASE v.t \in {"list", "tuple"} ->
         PyList([i \in 1..Len(v.items) |-> AsJson(v.items[i])])
    [] v.t = "dict" -> PyDict(AsJsonPairs(v.pairs))
    [] OTHER -> v

\* C6 as stated: the verifier recovers from every returned token a structure
\* equal to the original payload.
C6_RoundTrip ==
  \A c \in Calls :
    calls[c].pc = "returned" =>
      RecoverPayload(calls[c].result) = [ok |-> TRUE, val |-> calls[c].payload]

Recovers(r, payload) ==
  IF NotJsonRepresentable(payload) THEN ~r.ok
  ELSE r.ok /\ r.val = AsJson(payload)

\* C6: the verifier recovers from a returned token the payload as JSON holds
\* it, tuples as arrays and mapping keys as strings, so the original payload
\* exactly when it has neither; a payload with a non-finite number gives a
\* first segment that is not JSON and that the parser rejects.
C6_RoundTripAsJson ==
  \A c \in Calls :
    calls[c].pc = "returned" =>
      Recovers(RecoverPayload(calls[c].result), calls[c].payload)

C6_EscapedStringRecovered ==
  /\ cur.pc = "returned"
  /\ cur.payload = PayloadList[15]
  /\ RecoverPayload(cur.result) = [ok |-> TRUE, val |-> cur.payload]

\* The same key/value pairs at every level, in another order at some level.
Reordered(p, q) == p # q /\ SortKeys(p) = SortKeys(q)

\* {"user_id":42,"action":"upload"}
ScenarioJson ==
  <<123, 34, 117, 115, 101, 114, 95, 105, 100, 34, 58, 52, 50, 44, 34, 97,
    99, 116, 105, 111, 110, 34, 58, 34, 117, 112, 108, 111, 97, 100, 34, 125>>

\* C7: the payload is serialized with its keys in insertion order at every
\* nesting level, never sorted; two payloads with the same pairs in
\* different orders give different payload segments and different tokens
\* under the same key.
C7_InsertionOrder ==
  /\ \A c \in Calls :
       calls[c].pc \in {"line11", "line13", "line18", "line20", "returned"} =>
         /\ calls[c].payload = PayloadList[1] => calls[c].payload_json = ScenarioJson
         /\ SortKeys(calls[c].payload) # calls[c].payload =>
              calls[c].payload_json # Encode(SortKeys(calls[c].payload)).text
  /\ (/\ BothReturned
      /\ last.secret_key = cur.secret_key
      /\ Reordered(last.payload, cur.payload))
     => /\ PayloadSegment(last.result) # PayloadSegment(cur.result)
        /\ last.result # cur.result

C7_NestedReordered ==
  /\ BothReturned
  /\ last.secret_key = cur.secret_key
  /\ last.payload = PayloadList[17]
  /\ cur.payload = PayloadList[18]
  /\ Reordered(last.payload, cur.payload)
  /\ last.result # cur.result

\* A-Z, a-z, 0-9, "_", "-" and ".".
TokenAlphabet == (65..90) \cup (97..122) \cup (48..57) \cup {95, 45, 46}

\* C8: a returned token consists of characters of A-Z, a-z, 0-9, "_", "-"
\* and "." only; it contains no "+", "/" or "=".
C8_UrlSafeAlphabet ==
  \A c \in Calls :
    calls[c].pc = "returned" =>
      \A i \in 1..Len(calls[c].result) :
        /\ calls[c].result[i] \in TokenAlphabet
        /\ calls[c].result[i] \notin {43, 47, 61}

C8_TranslatedCharacters ==
  /\ cur.pc = "returned"
  /\ \E i \in 1..Len(cur.result) : cur.result[i] = 45
  /\ \E i \in 1..Len(cur.result) : cur.result[i] = 95

\* The part of the token after its first ".", the part before its last ".".
AfterFirstDot(token) ==
  LET d == CHOOSE i \in DotPositions(token) : \A j \in DotPositions(token) : i <= j
  IN  SubSeq(token, d + 1, Len(token))

BeforeLastDot(token) ==
  LET d == CHOOSE i \in DotPositions(token) : \A j \in DotPositions(token) : j <= i
  IN  SubSeq(token, 1, d - 1)

\* C9: a returned token contains exactly one "."; split on its first "." or
\* on its last ".", it gives the encoded payload and the encoded signature,
\* both non-empty.
C9_ExactlyOneDot ==
  \A c \in Calls :
    calls[c].pc = "returned" =>
      /\ Cardinality(DotPositions(calls[c].result)) = 1
      /\ <<BeforeFirstDot(calls[c].result), AfterFirstDot(calls[c].result)>>
           = <<calls[c].payload_base64, calls[c].signature_base64>>
      /\ <<BeforeLastDot(calls[c].result), AfterLastDot(calls[c].result)>>
           = <<calls[c].payload_base64, calls[c].signature_base64>>
      /\ calls[c].payload_base64 # <<>>
      /\ calls[c].signature_base64 # <<>>

C9_EmptyMappingToken ==
  /\ cur.pc = "returned"
  /\ cur.payload = PayloadList[4]
  /\ Cardinality(DotPositions(cur.result)) = 1
  /\ AfterFirstDot(cur.result) # <<>>

\* The segment is the base64 of the n bytes with only its padding removed.
StrippedOf(segment, bytes, n) ==
  /\ Len(segment) = (4 * n + 2) \div 3
  /\ Len(segment) % 4 # 1
  /\ \A i \in 1..Len(segment) : segment[i] # 61
  /\ RestorePadding(segment) = BytesDecode(UrlSafeB64Encode(bytes))

PayloadSegmentOf(segment, bytes) ==
  Len(bytes) >= 2 /\ StrippedOf(segment, bytes, Len(bytes))

\* C10: the signature segment is the 44-character base64 of the 32 digest
\* bytes without its one "=", 43 characters; the payload segment has
\* ceil(4n/3) characters for the n >= 2 bytes of the JSON text, never 1
\* modulo 4, and is the base64 of those bytes with only the padding removed.
C10_SegmentLengths ==
  \A c \in Calls :
    /\ calls[c].pc \in {"line13", "line18", "line20", "returned"} =>
         PayloadSegmentOf(calls[c].payload_base64,
                          StrEncode(calls[c].payload_json).bytes)
    /\ calls[c].pc \in {"line20", "returned"} =>
         /\ Len(calls[c].signature) = 32
         /\ Len(calls[c].signature_base64) = 43
         /\ StrippedOf(calls[c].signature_base64, calls[c].signature, 32)
         /\ Len(BytesDecode(UrlSafeB64Encode(calls[c].signature))) = 44

C10_PaddingStripped ==
  /\ cur.pc = "returned"
  /\ Len(cur.payload_json) = 2
  /\ Len(cur.payload_base64) = 3
  /\ Len(cur.signature_base64) = 43

====
